---------------------------- MODULE Spec2Model ----------------------------
(***************************************************************************)
(* Model of the sector_analysis metrics engine (calculations.py) and of    *)
(* the pipeline of main.py that feeds it (data_validation.py,              *)
(* data_processing.py).                                                    *)
(*                                                                         *)
(* Numbers.  The program computes on IEEE doubles held in pandas objects.  *)
(* A value of the model is one of                                          *)
(*   NaN                      pandas' missing marker (np.nan),             *)
(*   Inf(s)                   +inf / -inf (s = 1 / -1),                    *)
(*   Rat(n, d)                the exact rational n/d,                      *)
(*   Sym(s, e)                a finite non-zero real of sign s that is not *)
(*                            kept as a rational (a root, a fractional     *)
(*                            power, or a quotient of such), e naming the  *)
(*                            expression that produced it.                 *)
(* Arithmetic follows IEEE-754 for NaN, infinities and division by zero;   *)
(* finite results are exact (rounding error of doubles is not modelled).   *)
(*                                                                         *)
(* Dates are integers counted in calendar years, so that                   *)
(* pd.DateOffset(years = y) is the subtraction of y.                       *)
(***************************************************************************)
EXTENDS Integers, Sequences, FiniteSets, TLC

VARIABLES
    raw_data,   \* main.py: what fetch_data() returned
    df,         \* the matrix as the pipeline holds it: raw, validated, then processed_data
    pc,         \* position of main(), or "api" when the functions are called directly
    call,       \* the function called last, with its arguments
    result      \* what that call returned, or the error it raised

vars == << raw_data, df, pc, call, result >>

-----------------------------------------------------------------------------
(* Program constants (config.py)                                           *)

SP500_TICKER == "^GSPC"
SECTOR_TICKER == "XLK"
VIX_TICKER == "^VIX"
ROLLING_WINDOW == 60
TRADING_DAYS == 252

\* PERIODS: label -> years, in insertion order
PERIODS == << [label |-> "10Y", years |-> 10],
              [label |-> "5Y",  years |-> 5],
              [label |-> "3Y",  years |-> 3],
              [label |-> "1Y",  years |-> 1] >>

-----------------------------------------------------------------------------
(* Bounds of the model                                                     *)

MaxRows == 3        \* rows of a price matrix: 0 .. MaxRows
MaxWindow == 3      \* rolling windows tried: 1 .. MaxWindow
MaxRawRows == 2     \* rows of a fetched (raw) matrix: 0 .. MaxRawRows
StartPrices == {2}      \* first price of a column of a well-formed matrix
\* price(t) / price(t-1) of a sector: quartered, halved, kept, doubled, tripled
Moves == {[k |-> "num", n |-> 1, d |-> 4], [k |-> "num", n |-> 1, d |-> 2],
          [k |-> "num", n |-> 1, d |-> 1], [k |-> "num", n |-> 2, d |-> 1],
          [k |-> "num", n |-> 3, d |-> 1]}
\* price(t) / price(t-1) of the S&P 500: halved, doubled
BenchmarkMoves == {[k |-> "num", n |-> 1, d |-> 2], [k |-> "num", n |-> 2, d |-> 1]}
DateSteps == {1, 4}     \* years between two consecutive rows

-----------------------------------------------------------------------------
(* Values                                                                  *)

Abs(n) == IF n < 0 THEN -n ELSE n

Sgn(n) == IF n < 0 THEN -1 ELSE IF n > 0 THEN 1 ELSE 0

RECURSIVE Gcd(_, _)
Gcd(a, b) == IF b = 0 THEN a ELSE Gcd(b, a % b)

NaN == [k |-> "nan"]

Inf(s) == [k |-> "inf", s |-> s]

\* n/d in lowest terms, for d > 0 and g the greatest common divisor
Reduced(n, d, g) == [k |-> "num", n |-> n \div g, d |-> d \div g]

Rat(n, d) ==
    IF d < 0 THEN Reduced(-n, -d, Gcd(Abs(n), -d)) ELSE Reduced(n, d, Gcd(Abs(n), d))

Sym(s, e) == [k |-> "sym", s |-> s, e |-> e]

Zero == Rat(0, 1)
One == Rat(1, 1)

IsNaN(v) == v.k = "nan"
IsInf(v) == v.k = "inf"
IsFinite(v) == v.k \in {"num", "sym"}
IsZero(v) == v.k = "num" /\ v.n = 0

\* sign of a value that is not NaN
VSign(v) ==
    CASE v.k = "inf" -> v.s
      [] v.k = "num" -> Sgn(v.n)
      [] v.k = "sym" -> v.s

\* a + b on exact values
VAdd(a, b) ==
    CASE IsNaN(a) \/ IsNaN(b) -> NaN
      [] IsInf(a) /\ IsInf(b) -> IF a.s = b.s THEN a ELSE NaN
      [] IsInf(a) -> a
      [] IsInf(b) -> b
      [] OTHER -> Rat(a.n * b.d + b.n * a.d, a.d * b.d)

VNeg(a) ==
    CASE IsNaN(a) -> NaN
      [] IsInf(a) -> Inf(-a.s)
      [] OTHER -> Rat(-a.n, a.d)

VSub(a, b) == VAdd(a, VNeg(b))

\* a * b on exact values
VMul(a, b) ==
    CASE IsNaN(a) \/ IsNaN(b) -> NaN
      [] IsInf(a) \/ IsInf(b) ->
            IF IsZero(a) \/ IsZero(b) THEN NaN ELSE Inf(VSign(a) * VSign(b))
      [] OTHER -> Rat(a.n * b.n, a.d * b.d)

\* a / b: numpy's division, x/0 = +-inf, 0/0 = nan
VDiv(a, b) ==
    CASE IsNaN(a) \/ IsNaN(b) -> NaN
      [] IsZero(b) -> IF IsZero(a) THEN NaN ELSE Inf(VSign(a))
      [] IsInf(a) -> IF IsInf(b) THEN NaN ELSE Inf(a.s * VSign(b))
      [] IsInf(b) -> Zero
      [] IsZero(a) -> Zero
      [] a.k = "num" /\ b.k = "num" -> Rat(a.n * b.d, a.d * b.n)
      [] OTHER -> Sym(VSign(a) * VSign(b), [op |-> "div", a |-> a, b |-> b])

\* a < b of exact values (False when either is NaN)
VLess(a, b) ==
    LET c == VSub(a, b)
    IN  ~IsNaN(a) /\ ~IsNaN(b) /\ a # b /\ ~IsNaN(c) /\ VSign(c) < 0

\* floor of the square root of n >= 0, by bisection of lo .. hi
RECURSIVE ISqrtBetween(_, _, _)
ISqrtBetween(n, lo, hi) ==
    IF lo >= hi THEN lo
    ELSE IF ((lo + hi + 1) \div 2) * ((lo + hi + 1) \div 2) > n
         THEN ISqrtBetween(n, lo, ((lo + hi + 1) \div 2) - 1)
         ELSE ISqrtBetween(n, (lo + hi + 1) \div 2, hi)

ISqrt(n) == ISqrtBetween(n, 0, IF n < 46340 THEN n ELSE 46340)

\* v ** 0.5
VSqrt(v) ==
    CASE IsNaN(v) -> NaN
      [] IsInf(v) -> IF v.s > 0 THEN v ELSE NaN
      [] v.n < 0 -> NaN
      [] OTHER ->
            LET rn == ISqrt(v.n)
                rd == ISqrt(v.d)
            IN  IF rn * rn = v.n /\ rd * rd = v.d
                THEN Rat(rn, rd)
                ELSE Sym(1, [op |-> "sqrt", a |-> v])

\* v * sqrt(252); 252 is no square, so a non-zero finite product is kept symbolic
VMulSqrt252(v) ==
    CASE IsNaN(v) -> NaN
      [] IsInf(v) -> v
      [] IsZero(v) -> Zero
      [] OTHER -> Sym(VSign(v), [op |-> "mul_sqrt252", a |-> v])

\* base ** (252 / n) for a float exponent 252/n, n >= 1
VPow252(base, n) ==
    CASE IsNaN(base) -> NaN
      [] IsInf(base) -> IF base.s > 0 \/ (TRADING_DAYS % n = 0 /\ (TRADING_DAYS \div n) % 2 = 0)
                        THEN Inf(1)
                        ELSE IF TRADING_DAYS % n = 0 THEN Inf(-1) ELSE Inf(1)
      [] base = One -> One
      [] IsZero(base) -> Zero
      [] base.n > 0 -> Sym(1, [op |-> "pow252", a |-> base, n |-> n])
      [] TRADING_DAYS % n # 0 -> NaN
      [] base = Rat(-1, 1) -> IF (TRADING_DAYS \div n) % 2 = 0 THEN One ELSE Rat(-1, 1)
      [] OTHER -> Sym(IF (TRADING_DAYS \div n) % 2 = 0 THEN 1 ELSE -1,
                      [op |-> "pow252", a |-> base, n |-> n])

\* p - 1 for p = base ** (252 / n) as VPow252 gives it
VPowMinusOne(p) ==
    CASE p.k \in {"nan", "inf", "num"} -> VSub(p, One)
      [] p.s < 0 -> Sym(-1, [op |-> "sub1", a |-> p])
      [] OTHER -> \* p = b ** x with b > 0, b # 1, x > 0, or |b| ** k with b < 0
            LET b == p.e.a
                big == Abs(b.n) > b.d
            IN  Sym(IF big THEN 1 ELSE -1, [op |-> "sub1", a |-> p])

-----------------------------------------------------------------------------
(* Sequences of values                                                     *)

RECURSIVE SeqSum(_)
SeqSum(s) == IF s = << >> THEN Zero ELSE VAdd(Head(s), SeqSum(Tail(s)))

SeqMap(Op(_), s) == [i \in 1..Len(s) |-> Op(s[i])]

SelectNegative(s) == SelectSeq(s, LAMBDA v : VLess(v, Zero))

\* Series.std(): the sample standard deviation (ddof = 1), NaN for fewer than two values
Square(v) == VMul(v, v)

SumSquaresAbout(s, mean) == SeqSum([i \in 1..Len(s) |-> Square(VSub(s[i], mean))])

SampleVar(s) ==
    IF Len(s) < 2 THEN NaN
    ELSE VDiv(SumSquaresAbout(s, VDiv(SeqSum(s), Rat(Len(s), 1))), Rat(Len(s) - 1, 1))

Std(s) == VSqrt(SampleVar(s))

-----------------------------------------------------------------------------
(* Matrices (pandas DataFrames): an index of dates, the column labels in   *)
(* order, and one sequence of values per column.                           *)

Matrix(index, columns, data) == [index |-> index, columns |-> columns, data |-> data]

Range(s) == {s[i] : i \in 1..Len(s)}

NRows(m) == Len(m.index)

ColSet(m) == Range(m.columns)

\* DataFrame with every column mapped by Op
MapColumns(m, Op(_)) == Matrix(m.index, m.columns, [c \in ColSet(m) |-> Op(m.data[c])])

\* the rows of m at positions keep (an increasing sequence of row numbers)
TakeRows(m, keep) ==
    Matrix([i \in 1..Len(keep) |-> m.index[keep[i]]], m.columns,
           [c \in ColSet(m) |-> [i \in 1..Len(keep) |-> m.data[c][keep[i]]]])

\* the row numbers 1..n that satisfy P, in order
RowsWhere(n, P(_)) == SelectSeq([i \in 1..n |-> i], P)

\* DataFrame.dropna(): drop the rows holding a NaN in any column
DropNa(m) ==
    TakeRows(m, RowsWhere(NRows(m), LAMBDA i : \A c \in ColSet(m) : ~IsNaN(m.data[c][i])))

\* Series.ffill(): a NaN takes the last value above it that is not NaN
RECURSIVE FFillSeq(_)
FFillSeq(s) ==
    IF Len(s) <= 1 THEN s
    ELSE LET front == FFillSeq(SubSeq(s, 1, Len(s) - 1))
             last == s[Len(s)]
         IN  Append(front, IF IsNaN(last) THEN front[Len(front)] ELSE last)

\* Series.fillna(0)
\* FillNa0 that leaves the NaN of the first row in place
FillNa0_Kept(s) == [i \in 1..Len(s) |-> s[i]]

FillNa0(s) == [i \in 1..Len(s) |-> IF IsNaN(s[i]) THEN Zero ELSE s[i]]

\* Series.pct_change(): s / s.shift(1) - 1, the first value NaN.  (The
\* fill_method of older pandas pads NaN first; the matrices that reach it
\* here hold no NaN.)
PctChange(s) ==
    [i \in 1..Len(s) |-> IF i = 1 THEN NaN ELSE VSub(VDiv(s[i], s[i - 1]), One)]

\* df.loc[start_date:end_date] on a sorted index: both ends inclusive
Loc(m, start_date, end_date) ==
    TakeRows(m, RowsWhere(NRows(m),
                          LAMBDA i : start_date <= m.index[i] /\ m.index[i] <= end_date))

\* df.index.max() of a non-empty matrix
IndexMax(m) == CHOOSE d \in Range(m.index) : \A e \in Range(m.index) : e <= d

\* DateOffsetYears that moves the date forward
DateOffsetYears_Forward(date, years) == date + years

\* end_date - pd.DateOffset(years=years)
DateOffsetYears(date, years) == date - years

-----------------------------------------------------------------------------
(* calculations.py                                                          *)

calculate_daily_returns(m) == MapColumns(m, LAMBDA s : FillNa0(PctChange(s)))

\* Series.cumprod()
RECURSIVE CumProd(_)
CumProd(s) ==
    IF Len(s) <= 1 THEN s
    ELSE LET front == CumProd(SubSeq(s, 1, Len(s) - 1))
         IN  Append(front, VMul(front[Len(front)], s[Len(s)]))

\* calculate_cumulative_returns without the final "- 1"
calculate_cumulative_returns_GrowthFactor(r) ==
    MapColumns(r, LAMBDA s : CumProd(SeqMap(LAMBDA v : VAdd(One, v), s)))

calculate_cumulative_returns(r) ==
    MapColumns(r, LAMBDA s : SeqMap(LAMBDA v : VSub(v, One),
                                    CumProd(SeqMap(LAMBDA v : VAdd(One, v), s))))

\* df.div(df[benchmark], axis=0)
calculate_relative_performance(m, benchmark) ==
    IF benchmark \notin ColSet(m) THEN [status |-> "KeyError"]
    ELSE [status |-> "ok",
          value |-> MapColumns(m, LAMBDA s :
                        [i \in 1..Len(s) |-> VDiv(s[i], m.data[benchmark][i])])]

\* x.rolling(window).corr(y) at row t (pandas' corr_func): NaN until the
\* window is full (min_periods = window), then
\*   (mean(xy) - mean(x) mean(y)) * count / (count - ddof) / (var(x) var(y)) ** 0.5
Mean(s) == VDiv(SeqSum(s), Rat(Len(s), 1))

Products(xs, ys) == [i \in 1..Len(xs) |-> VMul(xs[i], ys[i])]

\* WindowCorr without the count / (count - ddof) correction of the covariance
WindowCorr_Uncorrected(xs, ys, count) ==
    VDiv(VSub(Mean(Products(xs, ys)), VMul(Mean(xs), Mean(ys))),
         VSqrt(VMul(SampleVar(xs), SampleVar(ys))))

WindowCorr(xs, ys, count) ==
    VDiv(VMul(VSub(Mean(Products(xs, ys)), VMul(Mean(xs), Mean(ys))),
              VDiv(count, VSub(count, One))),
         VSqrt(VMul(SampleVar(xs), SampleVar(ys))))

\* RollingCorrAt with one more leading NaN (min_periods = window + 1)
RollingCorrAt_OffByOne(x, y, window, t) ==
    IF t <= window THEN NaN
    ELSE WindowCorr(SubSeq(x, t - window + 1, t), SubSeq(y, t - window + 1, t),
                    Rat(window, 1))

RollingCorrAt(x, y, window, t) ==
    IF t < window THEN NaN
    ELSE WindowCorr(SubSeq(x, t - window + 1, t), SubSeq(y, t - window + 1, t),
                    Rat(window, 1))

calculate_rolling_correlation(r, benchmark, window) ==
    IF benchmark \notin ColSet(r) THEN [status |-> "KeyError"]
    ELSE [status |-> "ok",
          value |-> MapColumns(r, LAMBDA x :
                        [t \in 1..Len(x) |-> RollingCorrAt(x, r.data[benchmark], window, t)])]

\* calculate_sharpe_ratio that gives 0 for a volatility of 0
calculate_sharpe_ratio_ZeroForFlat(annualized_returns, volatilities) ==
    [c \in DOMAIN annualized_returns |->
        IF IsZero(volatilities[c]) THEN Zero
        ELSE VDiv(annualized_returns[c], volatilities[c])]

\* annualized_returns / volatilities, element by element
calculate_sharpe_ratio(annualized_returns, volatilities) ==
    [c \in DOMAIN annualized_returns |-> VDiv(annualized_returns[c], volatilities[c])]

\* SortinoOf without the test for a zero downside deviation
SortinoOf_Unguarded(annualized_return, downside_std) ==
    VDiv(annualized_return, downside_std)

\* lines 56-59: NaN for a downside deviation of 0, else the quotient
SortinoOf(annualized_return, downside_std) ==
    IF IsZero(downside_std) THEN NaN ELSE VDiv(annualized_return, downside_std)

calculate_sortino_ratio(annualized_returns, daily_returns) ==
    [ticker \in ColSet(daily_returns) |->
        SortinoOf(annualized_returns[ticker],
                  VMulSqrt252(Std(SelectNegative(daily_returns.data[ticker]))))]

\* (df.iloc[-1] / df.iloc[0]) - 1, per column, of a matrix with at least one row
TotalReturn(m) ==
    [c \in ColSet(m) |-> VSub(VDiv(m.data[c][NRows(m)], m.data[c][1]), One)]

\* LessBenchmark with the operands of the subtraction exchanged
LessBenchmark_Swapped(total_ret, sp500_col) ==
    [c \in DOMAIN total_ret |-> VSub(total_ret[sp500_col], total_ret[c])]

\* total_ret - total_ret[sp500_col]
LessBenchmark(total_ret, sp500_col) ==
    [c \in DOMAIN total_ret |-> VSub(total_ret[c], total_ret[sp500_col])]

calculate_relative_return(m, sp500_col) ==
    IF NRows(m) = 0 THEN [status |-> "IndexError"]
    ELSE IF sp500_col \notin ColSet(m) THEN [status |-> "KeyError"]
    ELSE [status |-> "ok", value |-> LessBenchmark(TotalReturn(m), sp500_col)]

\* The dictionary metrics_for_period returns: each entry is a scalar or a
\* Series indexed by ticker.
Scalar(v) == [scalar |-> TRUE, v |-> v]
Series(f) == [scalar |-> FALSE, v |-> f]

\* lines 105-112, or the error line 103 raised
MetricsDict(total_return, ann_return, volatility, sharpe, sortino, relative_ret) ==
    IF relative_ret.status # "ok" THEN [status |-> relative_ret.status]
    ELSE [status |-> "ok",
          value |-> [total_return |-> Series(total_return),
                     annualized_return |-> Series(ann_return),
                     volatility |-> Series(volatility),
                     sharpe_ratio |-> Series(sharpe),
                     sortino_ratio |-> Series(sortino),
                     relative_return |-> Series(relative_ret.value)]]

\* lines 93-103, given the returns of lines 85-91
MetricsFromReturns(daily_prices, daily_returns, total_return, ann_return, volatility) ==
    MetricsDict(total_return, ann_return, volatility,
                calculate_sharpe_ratio(ann_return, volatility),
                calculate_sortino_ratio(ann_return, daily_returns),
                calculate_relative_return(daily_prices, SP500_TICKER))

\* (1 + total_return) ** (252 / len(daily_prices)) - 1
AnnualizedReturn(total_return, n) ==
    [c \in DOMAIN total_return |-> VPowMinusOne(VPow252(VAdd(One, total_return[c]), n))]

\* daily_returns.std() * np.sqrt(252)
Volatility(daily_returns) ==
    [c \in ColSet(daily_returns) |-> VMulSqrt252(Std(daily_returns.data[c]))]

\* lines 84-112, given the daily returns and the total return
MetricsFromPrices(daily_prices, daily_returns, total_return) ==
    MetricsFromReturns(daily_prices, daily_returns, total_return,
                       AnnualizedReturn(total_return, NRows(daily_prices)),
                       Volatility(daily_returns))

\* metrics_for_period once sliced = df.loc[start_date:end_date] is taken
MetricsOfSlice(sliced) ==
    IF NRows(sliced) = 0
    THEN [status |-> "ok",
          value |-> [total_return |-> Scalar(NaN), annualized_return |-> Scalar(NaN),
                     volatility |-> Scalar(NaN), sharpe_ratio |-> Scalar(NaN),
                     sortino_ratio |-> Scalar(NaN), relative_return |-> Scalar(NaN)]]
    ELSE MetricsFromPrices(sliced, DropNa(MapColumns(sliced, PctChange)), TotalReturn(sliced))

metrics_for_period(m, start_date, end_date) == MetricsOfSlice(Loc(m, start_date, end_date))

\* the columns of a metrics table, in the order the dictionary of line 126 gives them
MetricsColumns ==
    << [name |-> "Total Return", key |-> "total_return"],
       [name |-> "Annualized Return", key |-> "annualized_return"],
       [name |-> "Volatility", key |-> "volatility"],
       [name |-> "Sharpe Ratio", key |-> "sharpe_ratio"],
       [name |-> "Sortino Ratio", key |-> "sortino_ratio"],
       [name |-> "Relative Return vs SP500", key |-> "relative_return"] >>

\* one cell of the DataFrame: a scalar is broadcast, a Series is read at c
CellOf(entry, c) == IF entry.scalar THEN entry.v ELSE entry.v[c]

\* pd.DataFrame({name: metrics_dict[key], ...}): pandas refuses a dictionary of
\* scalars only ("If using all scalar values, you must pass an index")
MetricsDataFrame(metrics_dict, tickers) ==
    IF \A i \in 1..Len(MetricsColumns) : metrics_dict[MetricsColumns[i].key].scalar
    THEN [status |-> "ValueError"]
    ELSE [status |-> "ok",
          value |-> [columns |-> [i \in 1..Len(MetricsColumns) |-> MetricsColumns[i].name],
                     data |-> [c \in Range(tickers) |->
                                 [i \in 1..Len(MetricsColumns) |->
                                    CellOf(metrics_dict[MetricsColumns[i].key], c)]]]]

\* lines 126-133 on what metrics_for_period returned, or the error it raised
TableOf(metrics, tickers) ==
    IF metrics.status # "ok" THEN metrics ELSE MetricsDataFrame(metrics.value, tickers)

\* One pass of the loop of generate_metrics_table. end_date is df.index.max();
\* of an empty matrix that is NaT, NaT - DateOffset is NaT and the slice
\* df.loc[NaT:NaT] is empty.
PeriodSlice(m, end_date, years) ==
    IF NRows(m) = 0 THEN m ELSE Loc(m, DateOffsetYears(end_date, years), end_date)

PeriodTable(m, end_date, years) == TableOf(MetricsOfSlice(PeriodSlice(m, end_date, years)), m.columns)

FirstFailure(tables) ==
    tables[CHOOSE i \in DOMAIN tables :
              tables[i].status # "ok" /\ \A j \in 1..(i - 1) : tables[j].status = "ok"]

\* the dictionary results, in the order of PERIODS, or the first error raised
Results(tables, end_date) ==
    IF \E i \in DOMAIN tables : tables[i].status # "ok"
    THEN [status |-> FirstFailure(tables).status]
    ELSE [status |-> "ok",
          value |-> [i \in 1..Len(PERIODS) |->
                       [label |-> PERIODS[i].label,
                        start_date |-> DateOffsetYears(end_date, PERIODS[i].years),
                        end_date |-> end_date,
                        table |-> tables[i].value]]]

TablesUpTo(m, end_date) ==
    Results([i \in 1..Len(PERIODS) |-> PeriodTable(m, end_date, PERIODS[i].years)], end_date)

\* df.index.max(); 0 stands for NaT, the maximum of an empty index
IndexMaxOrNaT(m) == IF NRows(m) = 0 THEN 0 ELSE IndexMax(m)

\* generate_metrics_table(df, reference_date); reference_date is not read (line 119)
generate_metrics_table(m, reference_date) == TablesUpTo(m, IndexMaxOrNaT(m))


-----------------------------------------------------------------------------
(* data_validation.py, data_processing.py                                  *)

HasDuplicates(m) == \E i, j \in 1..NRows(m) : i # j /\ m.index[i] = m.index[j]

HasMissing(m) == \E c \in ColSet(m) : \E i \in 1..NRows(m) : IsNaN(m.data[c][i])

\* validate_data prints its warnings and returns df as it came
validate_data(m) ==
    [status |-> "ok", value |-> m,
     printed |-> (IF HasDuplicates(m) THEN {"duplicated dates"} ELSE {})
                 \cup (IF HasMissing(m) THEN {"missing values"} ELSE {"passed"})]

\* df.ffill().dropna()
process_data(m) == DropNa(MapColumns(m, FFillSeq))

-----------------------------------------------------------------------------
(* Inputs                                                                  *)

\* the well-formed price matrices: aligned columns, strictly increasing dates,
\* strictly positive prices; with or without the S&P 500 column
ColumnChoices == { << SP500_TICKER, SECTOR_TICKER >>, << SECTOR_TICKER >> }

\* a price path: the start price, then one day-over-day move per row
RECURSIVE PricePath(_, _)
PricePath(start, moves) ==
    IF moves = << >> THEN << start >>
    ELSE LET front == PricePath(start, SubSeq(moves, 1, Len(moves) - 1))
         IN  Append(front, VMul(front[Len(front)], moves[Len(moves)]))

PricePaths(n, moves) ==
    IF n = 0 THEN { << >> }
    ELSE { PricePath(Rat(p, 1), mv) : p \in StartPrices, mv \in [1..(n - 1) -> moves] }

\* the columns of n prices each: the S&P 500 on a path of BenchmarkMoves, every
\* other instrument on a path of Moves
ColumnData(cols, n) ==
    { [c \in Range(cols) |-> IF c = SP500_TICKER THEN benchmark ELSE sector] :
        benchmark \in PricePaths(n, BenchmarkMoves), sector \in PricePaths(n, Moves) }

PriceMatrices ==
    UNION { { Matrix([i \in 1..n |-> (i - 1) * step], cols, data) :
                data \in ColumnData(cols, n) } :
            << n, step, cols >> \in (0..MaxRows) \X DateSteps \X ColumnChoices }

\* what fetch_data may return: dates that may repeat, cells that may be missing
\* (NaN) or non-positive (0)
RawCells == {NaN, Rat(0, 1), Rat(1, 1), Rat(2, 1)}

RECURSIVE Indexes(_)
Indexes(n) ==
    IF n = 0 THEN { << >> }
    ELSE IF n = 1 THEN { << 0 >> }
    ELSE UNION { { Append(ix, ix[n - 1]), Append(ix, ix[n - 1] + 1) } : ix \in Indexes(n - 1) }

RawColumns == << SP500_TICKER, SECTOR_TICKER >>

RawMatrices ==
    UNION { { Matrix(ix, RawColumns, data) :
                data \in [Range(RawColumns) -> [1..n -> RawCells]] } :
            << n, ix >> \in { << Len(jx), jx >> : jx \in UNION { Indexes(k) : k \in 0..MaxRawRows } } }

\* END_DATE of config.py is today; fetch_data asks for rows before it
END_DATE == MaxRawRows

WellFormed(m) ==
    /\ ~HasDuplicates(m)
    /\ \A c \in ColSet(m) : \A i \in 1..NRows(m) :
            m.data[c][i].k = "num" /\ m.data[c][i].n > 0

\* the dates a caller passes as start_date, end_date
QueryDates(m) == Range(m.index) \cup {0}

\* the reference dates a caller passes to generate_metrics_table
ReferenceDates(m) ==
    IF NRows(m) = 0 THEN {0} ELSE {IndexMax(m) - 1, IndexMax(m), IndexMax(m) + 1}

Benchmarks(m) == ColSet(m) \cup {SP500_TICKER, VIX_TICKER}

Ok(v) == [status |-> "ok", value |-> v]

-----------------------------------------------------------------------------
(* The functions of calculations.py called directly on a price matrix      *)

Init ==
    /\ df \in PriceMatrices
    /\ raw_data = df
    /\ pc = "api"
    /\ call = [fn |-> "none"]
    /\ result = [status |-> "none"]

\* a call and what it gave; each run makes one call on its matrix
Called(c, r) ==
    /\ call' = c
    /\ result' = r
    /\ pc' = "returned"
    /\ UNCHANGED << raw_data, df >>

DailyReturns ==
    /\ pc = "api"
    /\ Called([fn |-> "calculate_daily_returns"], Ok(calculate_daily_returns(df)))

CumulativeReturns ==
    /\ pc = "api"
    /\ Called([fn |-> "calculate_cumulative_returns"],
              Ok(calculate_cumulative_returns(calculate_daily_returns(df))))

RollingCorrelation ==
    /\ pc = "api"
    /\ \E benchmark \in Benchmarks(df), window \in 1..MaxWindow :
          Called([fn |-> "calculate_rolling_correlation",
                  benchmark |-> benchmark, window |-> window],
                 calculate_rolling_correlation(calculate_daily_returns(df), benchmark, window))

RelativePerformance ==
    /\ pc = "api"
    /\ \E benchmark \in Benchmarks(df) :
          Called([fn |-> "calculate_relative_performance", benchmark |-> benchmark],
                 calculate_relative_performance(df, benchmark))

RelativeReturn ==
    /\ pc = "api"
    /\ \E sp500_col \in Benchmarks(df) :
          Called([fn |-> "calculate_relative_return", sp500_col |-> sp500_col],
                 calculate_relative_return(df, sp500_col))

MetricsForPeriod ==
    /\ pc = "api"
    /\ \E start_date \in QueryDates(df), end_date \in QueryDates(df) :
          Called([fn |-> "metrics_for_period",
                  start_date |-> start_date, end_date |-> end_date],
                 metrics_for_period(df, start_date, end_date))

GenerateMetricsTable ==
    /\ pc = "api"
    /\ \E reference_date \in ReferenceDates(df) :
          Called([fn |-> "generate_metrics_table", reference_date |-> reference_date],
                 generate_metrics_table(df, reference_date))

Next ==
    \/ DailyReturns
    \/ CumulativeReturns
    \/ RollingCorrelation
    \/ RelativePerformance
    \/ RelativeReturn
    \/ MetricsForPeriod
    \/ GenerateMetricsTable

Spec == Init /\ [][Next]_vars

-----------------------------------------------------------------------------
(* main(): fetch, validate, process, then the calculations in turn          *)

InitMain ==
    /\ raw_data \in RawMatrices
    /\ df = raw_data
    /\ pc = "fetched"
    /\ call = [fn |-> "fetch_data"]
    /\ result = Ok(raw_data)

Validate ==
    /\ pc = "fetched"
    /\ call' = [fn |-> "validate_data"]
    /\ result' = validate_data(df)
    /\ df' = validate_data(df).value
    /\ pc' = "validated"
    /\ UNCHANGED raw_data

Process ==
    /\ pc = "validated"
    /\ call' = [fn |-> "process_data"]
    /\ result' = Ok(process_data(df))
    /\ df' = process_data(df)
    /\ pc' = "processed"
    /\ UNCHANGED raw_data

\* one call of main(): an exception ends the run
MainCall(from, to, c, r) ==
    /\ pc = from
    /\ call' = c
    /\ result' = r
    /\ pc' = IF r.status = "ok" THEN to ELSE "error"
    /\ UNCHANGED << raw_data, df >>

MainDailyReturns ==
    MainCall("processed", "returns",
             [fn |-> "calculate_daily_returns"], Ok(calculate_daily_returns(df)))

MainRollingCorrelation ==
    MainCall("returns", "rolling",
             [fn |-> "calculate_rolling_correlation",
              benchmark |-> SP500_TICKER, window |-> ROLLING_WINDOW],
             calculate_rolling_correlation(calculate_daily_returns(df),
                                           SP500_TICKER, ROLLING_WINDOW))

MainRelativePerformance ==
    MainCall("rolling", "relative",
             [fn |-> "calculate_relative_performance", benchmark |-> SP500_TICKER],
             calculate_relative_performance(df, SP500_TICKER))

MainCumulativeReturns ==
    MainCall("relative", "cumulative",
             [fn |-> "calculate_cumulative_returns"],
             Ok(calculate_cumulative_returns(calculate_daily_returns(df))))

MainMetricsTables ==
    MainCall("cumulative", "done",
             [fn |-> "generate_metrics_table", reference_date |-> END_DATE],
             generate_metrics_table(df, END_DATE))

NextMain ==
    \/ Validate
    \/ Process
    \/ MainDailyReturns
    \/ MainRollingCorrelation
    \/ MainRelativePerformance
    \/ MainCumulativeReturns
    \/ MainMetricsTables

SpecMain == InitMain /\ [][NextMain]_vars

-----------------------------------------------------------------------------
(* What the claims speak of                                                *)

Returned(fn) == pc = "returned" /\ call.fn = fn

\* the slice a call of metrics_for_period took
CallSlice == Loc(df, call.start_date, call.end_date)

MetricKeys == {"total_return", "annualized_return", "volatility",
               "sharpe_ratio", "sortino_ratio", "relative_return"}

\* the metrics record is Missing in all six fields for every instrument
AllMissing(metrics_dict, tickers) ==
    \A key \in MetricKeys : \A c \in tickers : IsNaN(CellOf(metrics_dict[key], c))

\* some period of the builder has an empty slice
EmptyPeriodSlice ==
    \E i \in 1..Len(PERIODS) :
        NRows(PeriodSlice(df, IndexMaxOrNaT(df), PERIODS[i].years)) = 0

\* C1. When the slice [start_date, end_date] is empty, metrics_for_period and
\* the table generate_metrics_table builds from it raise no error and give,
\* for every instrument, a record whose six fields are all Missing.
C1_EmptySliceAllMissing ==
    /\ (Returned("metrics_for_period") /\ NRows(CallSlice) = 0)
          => (result.status = "ok" /\ AllMissing(result.value, ColSet(df)))
    /\ (Returned("generate_metrics_table") /\ EmptyPeriodSlice)
          => /\ result.status = "ok"
             /\ \A i \in 1..Len(PERIODS) : \A c \in ColSet(df) :
                   NRows(PeriodSlice(df, IndexMaxOrNaT(df), PERIODS[i].years)) = 0
                      => \A j \in 1..Len(MetricsColumns) :
                            IsNaN(result.value[i].table.data[c][j])

\* a call of metrics_for_period that returned the metrics of a non-empty slice
MetricsReturned ==
    Returned("metrics_for_period") /\ result.status = "ok" /\ NRows(CallSlice) > 0

\* C2. For every instrument of a non-empty slice, sharpe_ratio is
\* annualized_return / volatility when volatility is non-zero, and Missing,
\* never an infinity, when volatility is 0.
C2_SharpeMissingOnZeroVolatility ==
    MetricsReturned =>
        \A c \in ColSet(df) :
            /\ IsZero(result.value.volatility.v[c]) => IsNaN(result.value.sharpe_ratio.v[c])
            /\ ~IsZero(result.value.volatility.v[c]) =>
                  result.value.sharpe_ratio.v[c]
                     = VDiv(result.value.annualized_return.v[c], result.value.volatility.v[c])

C4_ReferenceDateIsEndDate ==
    (Returned("generate_metrics_table") /\ result.status = "ok") =>
        \A i \in 1..Len(PERIODS) :
            /\ result.value[i].end_date = call.reference_date
            /\ result.value[i].start_date
                  = DateOffsetYears(call.reference_date, PERIODS[i].years)

\* C5. A missing-value condition (an empty period slice, a zero volatility,
\* an empty or zero-deviation downside sample) never aborts the table builder:
\* on a matrix that has the benchmark column it returns a table for every
\* label of PERIODS.
C5_BuilderNeverAborts ==
    (Returned("generate_metrics_table") /\ SP500_TICKER \in ColSet(df)) =>
        /\ result.status = "ok"
        /\ Len(result.value) = Len(PERIODS)
        /\ \A i \in 1..Len(PERIODS) : result.value[i].label = PERIODS[i].label

\* C6. Every configuration error is rejected with a fatal error: a benchmark
\* that is no column of the matrix, or a window smaller than 2, passed to
\* calculate_rolling_correlation; a benchmark absent from the matrix given to
\* the metrics evaluator.
C6_ConfigurationErrorsRejected ==
    /\ (Returned("calculate_rolling_correlation")
          /\ (call.benchmark \notin ColSet(df) \/ call.window < 2))
          => result.status # "ok"
    /\ (Returned("metrics_for_period") /\ SP500_TICKER \notin ColSet(df)
          /\ NRows(CallSlice) > 0)
          => result.status # "ok"

\* C7. A fetched matrix that breaks the data-shape contract (a duplicate date,
\* a non-positive price, a missing price) is rejected with a fatal error: the
\* run never goes on to compute returns or metrics from it.
C7_MalformedMatrixRejected ==
    ~WellFormed(raw_data) =>
        pc \notin {"returns", "rolling", "relative", "cumulative", "done"}

\* the simple return of instrument c at row t, from the prices: 0 at the first
\* row, (P[t] - P[t-1]) / P[t-1] after it
SimpleReturn(m, c, t) ==
    IF t = 1 THEN Zero
    ELSE VDiv(VSub(m.data[c][t], m.data[c][t - 1]), m.data[c][t - 1])

\* the returns of c in the window of w rows ending at row t are all equal
\* (the window has zero variance)
WindowConstant(m, c, w, t) ==
    \A u, v \in (t - w + 1)..t : SimpleReturn(m, c, u) = SimpleReturn(m, c, v)

RollingReturned == Returned("calculate_rolling_correlation") /\ result.status = "ok"

SameShape(a, b) == a.index = b.index /\ a.columns = b.columns

\* C8 as claimed. For a window w and L rows, the rolling correlation has the
\* shape of its input; every column is all Missing when L < w, and when L >= w
\* exactly its first w - 1 values are Missing: the value at position w is not.
C8_ExactlyLeadingMissing ==
    RollingReturned =>
        /\ SameShape(result.value, df)
        /\ \A c \in ColSet(df) :
              IF NRows(df) < call.window
              THEN \A t \in 1..NRows(df) : IsNaN(result.value.data[c][t])
              ELSE /\ \A t \in 1..(call.window - 1) : IsNaN(result.value.data[c][t])
                   /\ ~IsNaN(result.value.data[c][call.window])

\* C8 as amended. The rolling correlation has the shape of its input; in every
\* column the first w - 1 values are Missing (all L of them when L < w), and
\* the value at a position t >= w is not Missing exactly when neither the
\* column's nor the benchmark's returns are constant over the w rows ending at
\* t (never for w = 1).
C8_LeadingMissing ==
    RollingReturned =>
        /\ SameShape(result.value, df)
        /\ \A c \in ColSet(df) : \A t \in 1..NRows(df) :
              IF t < call.window
              THEN IsNaN(result.value.data[c][t])
              ELSE ~IsNaN(result.value.data[c][t])
                      <=> /\ ~WindowConstant(df, c, call.window, t)
                          /\ ~WindowConstant(df, call.benchmark, call.window, t)

\* C8 witness: a full first window of at least two rows that gives Missing in
\* one column and a number in the other
C8_Witness ==
    /\ RollingReturned
    /\ call.window >= 2
    /\ NRows(df) >= call.window
    /\ \E c, d \in ColSet(df) :
          /\ IsNaN(result.value.data[c][call.window])
          /\ ~IsNaN(result.value.data[d][call.window])

C10_ReinvestmentIdentity ==
    Returned("calculate_cumulative_returns") =>
        /\ SameShape(result.value, df)
        /\ \A c \in ColSet(df) : \A t \in 1..NRows(df) :
              result.value.data[c][t] = VSub(VDiv(df.data[c][t], df.data[c][1]), One)
        /\ (NRows(df) > 0 /\ SP500_TICKER \in ColSet(df)) =>
              \A c \in ColSet(df) :
                 result.value.data[c][NRows(df)]
                    = metrics_for_period(df, df.index[1], df.index[NRows(df)])
                         .value.total_return.v[c]

\* C10 witness: a series of MaxRows prices that ends away from where it began,
\* after an intermediate cumulative return different from the final one
C10_Witness ==
    /\ Returned("calculate_cumulative_returns")
    /\ NRows(df) = MaxRows
    /\ SP500_TICKER \in ColSet(df)
    /\ result.value.data[SP500_TICKER][NRows(df)] # Zero
    /\ result.value.data[SP500_TICKER][NRows(df) - 1] # Zero
    /\ result.value.data[SP500_TICKER][NRows(df)]
          # result.value.data[SP500_TICKER][NRows(df) - 1]

\* C11. calculate_daily_returns maps a price matrix of at least one row to a
\* return matrix of the same dates and instruments, raising no error, in which
\* every instrument has 0 at the first date and (P[t] - P[t-1]) / P[t-1] at
\* every later date t; one row gives one row of zeros.
C11_DailyReturnsContract ==
    (Returned("calculate_daily_returns") /\ NRows(df) >= 1) =>
        /\ result.status = "ok"
        /\ SameShape(result.value, df)
        /\ \A c \in ColSet(df) :
              /\ Len(result.value.data[c]) = NRows(df)
              /\ result.value.data[c][1] = Zero
              /\ \A t \in 2..NRows(df) :
                    result.value.data[c][t]
                       = VDiv(VSub(df.data[c][t], df.data[c][t - 1]), df.data[c][t - 1])

\* C11 witness: the returns of MaxRows prices that fall and then rise
C11_Witness ==
    /\ Returned("calculate_daily_returns")
    /\ NRows(df) = MaxRows
    /\ \E c \in ColSet(df) :
          /\ result.value.data[c][1] = Zero
          /\ VLess(result.value.data[c][2], Zero)
          /\ VLess(Zero, result.value.data[c][MaxRows])

\* the n - 1 daily returns of instrument c over the slice of the call
SliceReturns(c) ==
    [t \in 1..(NRows(CallSlice) - 1) |-> SimpleReturn(CallSlice, c, t + 1)]

\* the strictly negative ones among them
Downside(c) == SelectSeq(SliceReturns(c), LAMBDA r : r.n < 0)

\* stddev(downside) * sqrt(252)
DownsideDeviation(c) == VMulSqrt252(Std(Downside(c)))

AllPositiveNotAllEqual(c) ==
    /\ \A t \in DOMAIN SliceReturns(c) : SliceReturns(c)[t].n > 0
    /\ \E t, u \in DOMAIN SliceReturns(c) : SliceReturns(c)[t] # SliceReturns(c)[u]

\* C12. For every instrument of a non-empty slice, sortino_ratio is Missing
\* when no daily return of the slice is negative or the annualized sample
\* standard deviation of the negative ones is 0 (or undefined, there being one
\* only), and is otherwise annualized_return / downside_deviation, a finite
\* number; an instrument whose returns are all positive and not all equal has
\* sortino_ratio Missing and a finite sharpe_ratio.
C12_SortinoMissingOrQuotient ==
    MetricsReturned =>
        \A c \in ColSet(df) :
            /\ (Len(Downside(c)) < 2 \/ IsZero(DownsideDeviation(c)))
                  => IsNaN(result.value.sortino_ratio.v[c])
            /\ (Len(Downside(c)) >= 2 /\ ~IsZero(DownsideDeviation(c)))
                  => /\ result.value.sortino_ratio.v[c]
                          = VDiv(result.value.annualized_return.v[c], DownsideDeviation(c))
                     /\ IsFinite(result.value.sortino_ratio.v[c])
            /\ AllPositiveNotAllEqual(c)
                  => /\ IsNaN(result.value.sortino_ratio.v[c])
                     /\ IsFinite(result.value.sharpe_ratio.v[c])

\* C12 witness: one instrument with two different negative returns and a
\* finite sortino_ratio, by the side of one whose two negative returns are equal
C12_Witness ==
    /\ MetricsReturned
    /\ \E c, d \in ColSet(df) :
          /\ Len(Downside(c)) >= 2
          /\ IsFinite(result.value.sortino_ratio.v[c])
          /\ Len(Downside(d)) >= 2
          /\ IsZero(DownsideDeviation(d))
          /\ IsNaN(result.value.sortino_ratio.v[d])

\* the scenario of C12: all returns positive, not all equal
C12_AllPositiveScenario ==
    /\ MetricsReturned
    /\ \E c \in ColSet(df) : AllPositiveNotAllEqual(c)

\* the six fields of a metrics table as the specification names them
SpecifiedFields ==
    << "Total Return", "Annualized Return", "Volatility", "Sharpe Ratio",
       "Sortino Ratio", "Relative Return vs Benchmark" >>

\* C13. On a matrix that has the benchmark column generate_metrics_table
\* returns one table per label of PERIODS, in the order of PERIODS, and every
\* table has exactly the six fields of SpecifiedFields, in that order, every
\* value being a real number or Missing.
C13_SixNamedFields ==
    (Returned("generate_metrics_table") /\ SP500_TICKER \in ColSet(df)) =>
        /\ result.status = "ok"
        /\ Len(result.value) = Len(PERIODS)
        /\ \A i \in 1..Len(PERIODS) :
              /\ result.value[i].label = PERIODS[i].label
              /\ result.value[i].table.columns = SpecifiedFields
              /\ \A c \in ColSet(df) : \A j \in 1..Len(SpecifiedFields) :
                    \/ IsFinite(result.value[i].table.data[c][j])
                    \/ IsNaN(result.value[i].table.data[c][j])

\* C13, the values alone: whatever the fields are called, every value of every
\* table returned is a real number or Missing.
C13_ValuesRealOrMissing ==
    (Returned("generate_metrics_table") /\ result.status = "ok") =>
        \A i \in 1..Len(PERIODS) : \A c \in ColSet(df) :
            \A j \in 1..Len(result.value[i].table.columns) :
                \/ IsFinite(result.value[i].table.data[c][j])
                \/ IsNaN(result.value[i].table.data[c][j])

\* the price of instrument c is the same at every date of matrix m
ConstantPrice(m, c) == \A t \in 1..NRows(m) : m.data[c][t] = m.data[c][1]

\* C14. For an instrument whose price is the same at every date of a slice of
\* at least three rows, every return after the first date is exactly 0,
\* volatility is exactly 0, and sharpe_ratio and sortino_ratio are Missing.
C14_ConstantPriceSeries ==
    /\ (Returned("calculate_daily_returns") /\ NRows(df) >= 3) =>
          \A c \in ColSet(df) :
              ConstantPrice(df, c) =>
                  \A t \in 2..NRows(df) : result.value.data[c][t] = Zero
    /\ (MetricsReturned /\ NRows(CallSlice) >= 3) =>
          \A c \in ColSet(df) :
              ConstantPrice(CallSlice, c) =>
                  /\ result.value.volatility.v[c] = Zero
                  /\ IsNaN(result.value.sharpe_ratio.v[c])
                  /\ IsNaN(result.value.sortino_ratio.v[c])

\* C14 witness: the metrics of a flat sector over MaxRows rows, by the side of
\* a benchmark that moved
C14_Witness ==
    /\ MetricsReturned
    /\ NRows(CallSlice) = MaxRows
    /\ ConstantPrice(CallSlice, SECTOR_TICKER)
    /\ result.value.volatility.v[SECTOR_TICKER] = Zero
    /\ result.value.total_return.v[SECTOR_TICKER] = Zero
    /\ ~IsZero(result.value.volatility.v[SP500_TICKER])

\* the date of the last row of df, the latest since the index is increasing
LatestDate == df.index[NRows(df)]

\* the first row of df dated no earlier than `years` before the latest date
FirstRowWithin(years) ==
    CHOOSE t \in 1..NRows(df) :
        /\ df.index[t] >= LatestDate - years
        /\ \A u \in 1..(t - 1) : df.index[u] < LatestDate - years

\* period i of PERIODS reaches back beyond the first row of df
LongerThanHistory(i) == LatestDate - PERIODS[i].years < df.index[1]

\* C15. In every run of generate_metrics_table on a non-empty matrix, every
\* period's slice [end_date - years, end_date] holds at least the row of the
\* latest date, so the builder never meets the empty-slice branch of
\* metrics_for_period (it does not fail on a dictionary of scalars, and no
\* Total Return is Missing); a period longer than the history is computed
\* over all rows.
C15_BuilderSliceNeverEmpty ==
    (Returned("generate_metrics_table") /\ NRows(df) > 0) =>
        /\ \A i \in 1..Len(PERIODS) :
              /\ NRows(PeriodSlice(df, IndexMaxOrNaT(df), PERIODS[i].years)) >= 1
              /\ LongerThanHistory(i) => FirstRowWithin(PERIODS[i].years) = 1
        /\ result.status \in {"ok", "KeyError"}
        /\ result.status = "KeyError" <=> SP500_TICKER \notin ColSet(df)
        /\ result.status = "ok" =>
              \A i \in 1..Len(PERIODS) : \A c \in ColSet(df) :
                  /\ result.value[i].end_date = LatestDate
                  /\ result.value[i].start_date = LatestDate - PERIODS[i].years
                  /\ result.value[i].table.data[c][1]
                        = VSub(VDiv(df.data[c][NRows(df)],
                                    df.data[c][FirstRowWithin(PERIODS[i].years)]), One)

\* C15 witness: tables of MaxRows rows of which one period is longer than the
\* history and another takes the latest rows only, with a different Total Return
C15_Witness ==
    /\ Returned("generate_metrics_table")
    /\ result.status = "ok"
    /\ NRows(df) = MaxRows
    /\ \E i, j \in 1..Len(PERIODS) :
          /\ LongerThanHistory(i)
          /\ FirstRowWithin(PERIODS[j].years) > 1
          /\ result.value[i].table.data[SECTOR_TICKER][1]
                # result.value[j].table.data[SECTOR_TICKER][1]

=============================================================================
